---- MODULE Spec2Model ----
(***************************************************************************)
(* Station reference store and resolver of ctd_pre_system                  *)
(* (src/src/ctd_pre_system/station.py): StationFile, the StationsMatprogram *)
(* facade, decmin_to_decdeg and distance_to_station.                       *)
(*                                                                         *)
(* Strings are sequences of one-character strings, so that strip(),        *)
(* upper(), split('<or>') and the ordering used by sorted() are computed.  *)
(* The literal delimiter '<or>' is carried as the single token "<or>".     *)
(* Coordinates are whole numbers in the DDMM encoding; decimal degrees are *)
(* carried as whole arc minutes (degrees * 60).  All positions lie on one  *)
(* meridian, where the law-of-cosines central angle is exactly the         *)
(* latitude difference.                                                    *)
(***************************************************************************)
EXTENDS Integers, Sequences, FiniteSets, TLC

(***************************************************************************)
(* Bounds of the model.                                                    *)
(***************************************************************************)
MaxRows == 2

MaxLines == 3

(***************************************************************************)
(* Python values.                                                          *)
(***************************************************************************)
None == <<"None">>

NaN == <<"NaN">>

NoRaise == "none"

(***************************************************************************)
(* str methods.                                                            *)
(***************************************************************************)
\* code point order of the characters that occur
Ord(c) ==
    CASE c = " " -> 32
      [] c = "A" -> 65
      [] c = "N" -> 78
      [] c = "X" -> 88
      [] c = "Z" -> 90
      [] c = "a" -> 97
      [] c = "n" -> 110
      [] c = "x" -> 120
      [] c = "z" -> 122
      [] OTHER -> 60

UpperChar(c) ==
    CASE c = "a" -> "A"
      [] c = "n" -> "N"
      [] c = "x" -> "X"
      [] c = "z" -> "Z"
      [] OTHER -> c

\* str.upper()
Upper(s) == [i \in 1..Len(s) |-> UpperChar(s[i])]

RECURSIVE LStrip(_)
LStrip(s) == IF s # <<>> /\ Head(s) = " " THEN LStrip(Tail(s)) ELSE s

RECURSIVE RStrip(_)
RStrip(s) ==
    IF s # <<>> /\ s[Len(s)] = " " THEN RStrip(SubSeq(s, 1, Len(s) - 1)) ELSE s

\* str.strip()
Strip(s) == RStrip(LStrip(s))

\* str.split('<or>'): the pieces between the delimiters, empty pieces kept
RECURSIVE SplitFrom(_, _)
SplitFrom(s, piece) ==
    IF s = <<>> THEN <<piece>>
    ELSE IF Head(s) = "<or>" THEN <<piece>> \o SplitFrom(Tail(s), <<>>)
    ELSE SplitFrom(Tail(s), Append(piece, Head(s)))

SplitOr(s) == SplitFrom(s, <<>>)

\* s < t for str: lexicographic by code point, a proper prefix is smaller
RECURSIVE StrLess(_, _)
StrLess(s, t) ==
    IF t = <<>> THEN FALSE
    ELSE IF s = <<>> THEN TRUE
    ELSE IF Ord(Head(s)) < Ord(Head(t)) THEN TRUE
    ELSE IF Ord(Head(s)) > Ord(Head(t)) THEN FALSE
    ELSE StrLess(Tail(s), Tail(t))

\* insertion of x into a sorted list, after the elements not greater than x
RECURSIVE InsertSorted(_, _)
InsertSorted(x, l) ==
    IF l = <<>> THEN <<x>>
    ELSE IF StrLess(x, Head(l)) THEN <<x>> \o l
    ELSE <<Head(l)>> \o InsertSorted(x, Tail(l))

\* sorted(l) and list.sort() on a list of str (stable, ascending)
RECURSIVE Sorted(_)
Sorted(l) ==
    IF l = <<>> THEN <<>>
    ELSE InsertSorted(l[Len(l)], Sorted(SubSeq(l, 1, Len(l) - 1)))

(***************************************************************************)
(* dict, in insertion order: a sequence of <<key, value>> pairs.           *)
(***************************************************************************)
DictKeys(d) == {d[i][1] : i \in 1..Len(d)}

DictHas(d, k) == \E i \in 1..Len(d) : d[i][1] = k

\* d.get(k, None)
DictGet(d, k) ==
    IF DictHas(d, k) THEN d[CHOOSE i \in 1..Len(d) : d[i][1] = k][2] ELSE None

\* a variant that keeps the value of an existing key (dict.setdefault)
DictSetDefault(d, k, v) == IF DictHas(d, k) THEN d ELSE Append(d, <<k, v>>)

\* d[k] = v: an existing key keeps its place and takes the new value
DictSet(d, k, v) ==
    IF DictHas(d, k)
    THEN [i \in 1..Len(d) |-> IF d[i][1] = k THEN <<k, v>> ELSE d[i]]
    ELSE Append(d, <<k, v>>)

(***************************************************************************)
(* decmin_to_decdeg and distance_to_station.                               *)
(***************************************************************************)
\* length in millimetres of one arc minute on the sphere of radius 6363 km
\* (6363 * 1000 * pi / 10800 m)
ArcMinuteMm == 1850922

\* np.floor(p / 100.) and np.ceil(p / 100.)
Floor100(p) == p \div 100

Ceil100(p) == -((-p) \div 100)

\* decmin_to_decdeg of one number; the result is in arc minutes (degrees * 60)
decmin_to_decdeg(pos) ==
    IF pos >= 0
    THEN Floor100(pos) * 60 + (pos % 100)
    ELSE Ceil100(pos) * 60 - ((-pos) % 100)

Abs(n) == IF n < 0 THEN -n ELSE n

\* distance_to_station(pos1, pos2) for two positions <<lat, lon>> on one
\* meridian: 0 for equal positions, else the rounded arc length in metres
distance_to_station(pos1, pos2) ==
    LET lat1 == decmin_to_decdeg(pos1[1])
        lon1 == decmin_to_decdeg(pos1[2])
        lat2 == decmin_to_decdeg(pos2[1])
        lon2 == decmin_to_decdeg(pos2[2])
    IN  IF lat1 = lat2 /\ lon1 = lon2 THEN 0
        ELSE (Abs(lat1 - lat2) * ArcMinuteMm + 500) \div 1000

(***************************************************************************)
(* The station table: rows of the tab-separated file.                      *)
(***************************************************************************)
Row(name, syn, lat, rad) ==
    [STATION_NAME |-> name, SYNONYM_NAMES |-> syn, LAT_DM |-> lat,
     LONG_DM |-> 1824, OUT_OF_BOUNDS_RADIUS |-> rad,
     WADEP |-> NaN, MEDIA |-> NaN]

\* canonical names and synonym fields of the name tables
Names == {<<"n">>, <<"A", "n">>}

SynonymFields ==
    { NaN,
      <<" ">>,
      <<"N">>,
      <<" ", "x", "<or>", " ", "N", " ">>,
      <<"X", "<or>">> }

NamePool == {Row(n, s, 5600, 1851) : n \in Names, s \in SynonymFields}

\* positions and tolerance radii of the position tables
Lats == {5559, 5600, 5601}

Radii == {0, 1851}

GeoPool == {Row(<<"n">>, NaN, lat, rad) : lat \in Lats, rad \in Radii}

RECURSIVE SeqsUpTo(_, _)
SeqsUpTo(S, n) ==
    IF n = 0 THEN {<<>>}
    ELSE LET shorter == SeqsUpTo(S, n - 1)
         IN  shorter \cup {Append(t, r) : t \in shorter, r \in S}

Tables(pool) == SeqsUpTo(pool, MaxRows)

\* names asked for, and observed positions (<<>> is an absent coordinate)
QueryNames ==
    { <<"n">>, <<" ", "A", "n", " ">>, <<"n", "a", "n">>, <<"x">>, <<>>, <<"z">> }

QueryLats == {<<>>, <<5559>>, <<5600>>}

QueryLons == {<<>>, <<1824>>}

\* lines of the station filter file
FilterLines == {<<" ">>, <<"n">>, <<" ", "A", "n", " ">>, <<"z">>}

(***************************************************************************)
(* Files and the remote response.                                          *)
(***************************************************************************)
\* a file: absent, a station table, or text that is no station table
NoFile == [exists |-> FALSE, is_table |-> FALSE, rows |-> <<>>]

TableFile(rows) == [exists |-> TRUE, is_table |-> TRUE, rows |-> rows]

ErrorPage == [exists |-> TRUE, is_table |-> FALSE, rows |-> <<>>]

\* what requests.get can do: raise, or return a response with a status
Statuses == {"200", "404", "ConnectionError"}

(***************************************************************************)
(* State.                                                                  *)
(***************************************************************************)
VARIABLES
    primary_url,          \* a primary url is configured
    backup_file_path,     \* a backup file path is configured
    update_primary,       \* kwargs.get('update_primary')
    remote_file,          \* the station file the server holds
    primary_file,         \* the cached primary file on disk
    backup_file,          \* the backup file on disk
    station_filter_file,  \* the lines of the station filter file
    obj,                  \* "unloaded", "StationFile", "Stations" or "failed"
    response,             \* status of the response fetched by the constructor
    file_path,            \* the file _load_file read: "none", "primary", "backup"
    df,                   \* StationFile._df
    station_synonyms,     \* StationFile._station_synonyms
    station_name_list,    \* StationsMatprogram.station_name_list
    ret                   \* the last call: its arguments and its outcome

vars ==
    <<primary_url, backup_file_path, update_primary, remote_file, primary_file,
      backup_file, station_filter_file, obj, response, file_path, df,
      station_synonyms, station_name_list, ret>>

env == <<primary_url, backup_file_path, update_primary, remote_file,
         backup_file, station_filter_file>>

NoInfo == [station |-> None]

\* no call yet
NoRet ==
    [op |-> "none", via |-> "none", name |-> None, lat |-> <<>>, lon |-> <<>>,
     kind |-> "none", str |-> None, info |-> NoInfo, num |-> 0, list |-> <<>>,
     exc |-> NoRaise, dist_calls |-> 0]

(***************************************************************************)
(* StationFile: construction.                                              *)
(***************************************************************************)
\* _download_station_file_from_git: the outcome of the fetch and the primary
\* file afterwards.  The response text is written whatever its status.
download_station_file_from_git(url, status, body, primary) ==
    IF ~url THEN [exc |-> NoRaise, response |-> "none", primary |-> primary]
    ELSE IF status = "ConnectionError"
    THEN [exc |-> "ConnectionError", response |-> status, primary |-> primary]
    ELSE [exc |-> NoRaise, response |-> status, primary |-> body]

\* Series.fillna(''): an unset field becomes the empty string
fillna(v) == IF v = NaN THEN <<>> ELSE v

\* pd.read_csv and the two fillna calls of _load_file
read_table(rows) ==
    [i \in 1..Len(rows) |->
        [rows[i] EXCEPT !.MEDIA = fillna(@), !.WADEP = fillna(@)]]

\* a variant that looks for the backup file first
load_file_backup_first(url, primary, backup_path, backup) ==
    IF backup_path /\ backup.exists
    THEN IF backup.is_table
         THEN [exc |-> NoRaise, file_path |-> "backup", df |-> read_table(backup.rows)]
         ELSE [exc |-> "KeyError", file_path |-> "backup", df |-> <<>>]
    ELSE IF url /\ primary.exists
    THEN IF primary.is_table
         THEN [exc |-> NoRaise, file_path |-> "primary", df |-> read_table(primary.rows)]
         ELSE [exc |-> "KeyError", file_path |-> "primary", df |-> <<>>]
    ELSE [exc |-> "FileNotFoundError", file_path |-> "none", df |-> <<>>]

\* _load_file: the file chosen, and the table read from it
load_file(url, primary, backup_path, backup) ==
    IF url /\ primary.exists
    THEN IF primary.is_table
         THEN [exc |-> NoRaise, file_path |-> "primary", df |-> read_table(primary.rows)]
         ELSE [exc |-> "KeyError", file_path |-> "primary", df |-> <<>>]
    ELSE IF backup_path /\ backup.exists
    THEN IF backup.is_table
         THEN [exc |-> NoRaise, file_path |-> "backup", df |-> read_table(backup.rows)]
         ELSE [exc |-> "KeyError", file_path |-> "backup", df |-> <<>>]
    ELSE [exc |-> "FileNotFoundError", file_path |-> "none", df |-> <<>>]

\* StationFile.__init__ with the response the server gives
StationFile_init(status, body) ==
    LET dl == IF update_primary
              THEN download_station_file_from_git(primary_url, status, body, primary_file)
              ELSE [exc |-> NoRaise, response |-> "none", primary |-> primary_file]
        ld == load_file(primary_url, dl.primary, backup_file_path, backup_file)
    IN  IF dl.exc # NoRaise
        THEN [exc |-> dl.exc, response |-> dl.response, primary |-> dl.primary,
              file_path |-> "none", df |-> <<>>]
        ELSE [exc |-> ld.exc, response |-> dl.response, primary |-> dl.primary,
              file_path |-> ld.file_path, df |-> ld.df]

(***************************************************************************)
(* StationFile: the synonym index.                                         *)
(***************************************************************************)
\* Series.astype(str) on the synonym column: an unset field reads 'nan'
astype_str(v) == IF v = NaN THEN <<"n", "a", "n">> ELSE v

\* for syn in synonyms: self._station_synonyms[syn.upper()] = name
RECURSIVE register_synonyms(_, _, _)
register_synonyms(d, synonyms, name) ==
    IF synonyms = <<>> THEN d
    ELSE register_synonyms(DictSet(d, Upper(Head(synonyms)), name),
                           Tail(synonyms), name)

\* one turn of the loop of _create_station_synonyms
register_row(d, row) ==
    LET name == row.STATION_NAME
        d1 == DictSet(d, Upper(name), name)
        synonym_string == Strip(astype_str(row.SYNONYM_NAMES))
    IN  IF synonym_string = <<>> THEN d1
        ELSE register_synonyms(d1, SplitOr(synonym_string), name)

\* _create_station_synonyms: the rows in table order
RECURSIVE create_station_synonyms(_, _)
create_station_synonyms(d, rows) ==
    IF rows = <<>> THEN d
    ELSE create_station_synonyms(register_row(d, Head(rows)), Tail(rows))

(***************************************************************************)
(* StationFile: queries.  Each gives the index afterwards and the result.  *)
(***************************************************************************)
\* str(x) of a depth field; the depth is unset in every table, and
\* str('') is ''
PyStr(v) == v

\* _add_cols_to_station_info
add_cols_to_station_info(station_info) ==
    [lat |-> station_info.LAT_DM, lon |-> station_info.LONG_DM,
     depth |-> PyStr(station_info.WADEP),
     station |-> station_info.STATION_NAME] @@ station_info

\* a variant that looks the name up in a fresh index and does not keep it
get_proper_station_name_unkept(table, d, synonym) ==
    LET key == Upper(Strip(synonym))
        d1 == IF d = <<>> THEN create_station_synonyms(d, table) ELSE d
    IN  [synonyms |-> d, name |-> DictGet(d1, key)]

\* a variant that does not strip the name asked for
get_proper_station_name_unstripped(table, d, synonym) ==
    LET key == Upper(synonym)
        d1 == IF d = <<>> THEN create_station_synonyms(d, table) ELSE d
    IN  [synonyms |-> d1, name |-> DictGet(d1, key)]

\* get_proper_station_name
get_proper_station_name(table, d, synonym) ==
    LET key == Upper(Strip(synonym))
        d1 == IF d = <<>> THEN create_station_synonyms(d, table) ELSE d
    IN  [synonyms |-> d1, name |-> DictGet(d1, key)]

\* self._df.loc[self._df['STATION_NAME'] == name].iloc[0]
first_row_named(table, name) ==
    table[CHOOSE i \in 1..Len(table) :
            /\ table[i].STATION_NAME = name
            /\ \A j \in 1..(i - 1) : table[j].STATION_NAME # name]

\* get_station_info
get_station_info(table, d, station_name) ==
    LET r == get_proper_station_name(table, d, station_name)
    IN  IF r.name = None \/ r.name = <<>>
        THEN [synonyms |-> r.synonyms, found |-> FALSE, info |-> NoInfo]
        ELSE [synonyms |-> r.synonyms, found |-> TRUE,
              info |-> add_cols_to_station_info(first_row_named(table, r.name))]

\* min(dist) for a non-empty list of numbers
RECURSIVE py_min(_)
py_min(l) ==
    IF Len(l) = 1 THEN l[1]
    ELSE LET m == py_min(Tail(l)) IN IF m < Head(l) THEN m ELSE Head(l)

\* a variant that takes the last position holding min_dist
last_where(dist, min_dist) ==
    CHOOSE i \in 1..Len(dist) :
        /\ dist[i] = min_dist
        /\ \A j \in (i + 1)..Len(dist) : dist[j] # min_dist

\* np.where(dist == min_dist)[0][0]: the first position holding min_dist
first_where(dist, min_dist) ==
    CHOOSE i \in 1..Len(dist) :
        /\ dist[i] = min_dist
        /\ \A j \in 1..(i - 1) : dist[j] # min_dist

\* a variant that returns early only when both coordinates are absent
both_coordinates_absent(lat, lon) == lat = <<>> /\ lon = <<>>

\* lat is None or lon is None; a coordinate is <<>> (None) or <<number>>
coordinate_absent(lat, lon) == lat = <<>> \/ lon = <<>>

\* get_closest_station.  On an empty table no row is there to take
\* (IndexError); an absent coordinate that reached distance_to_station would
\* raise TypeError in its arithmetic.
get_closest_station(table, lat, lon) ==
    IF coordinate_absent(lat, lon)
    THEN [kind |-> "None", info |-> NoInfo, exc |-> NoRaise, dist_calls |-> 0]
    ELSE IF table = <<>>
    THEN [kind |-> "raise", info |-> NoInfo, exc |-> "IndexError", dist_calls |-> 0]
    ELSE IF lat = <<>> \/ lon = <<>>
    THEN [kind |-> "raise", info |-> NoInfo, exc |-> "TypeError", dist_calls |-> 1]
    ELSE
    LET dist == [i \in 1..Len(table) |->
                    distance_to_station(<<lat[1], lon[1]>>,
                                        <<table[i].LAT_DM, table[i].LONG_DM>>)]
        min_dist == py_min(dist)
        row == table[first_where(dist, min_dist)]
        station_info ==
            [distance |-> min_dist,
             acceptable |-> (min_dist <= row.OUT_OF_BOUNDS_RADIUS)] @@ row
    IN  [kind |-> "value", info |-> add_cols_to_station_info(station_info),
         exc |-> NoRaise, dist_calls |-> Len(table)]

\* get_distance_to_station: an absent coordinate reaches the arithmetic of
\* distance_to_station, which raises TypeError on it
get_distance_to_station(table, d, lat, lon, station_name) ==
    LET r == get_station_info(table, d, station_name)
    IN  IF ~r.found
        THEN [synonyms |-> r.synonyms, kind |-> "None", num |-> 0, exc |-> NoRaise,
              dist_calls |-> 0]
        ELSE IF lat = <<>> \/ lon = <<>>
        THEN [synonyms |-> r.synonyms, kind |-> "raise", num |-> 0,
              exc |-> "TypeError", dist_calls |-> 1]
        ELSE [synonyms |-> r.synonyms, kind |-> "value",
              num |-> distance_to_station(<<lat[1], lon[1]>>,
                                          <<r.info.lat, r.info.lon>>),
              exc |-> NoRaise, dist_calls |-> 1]

\* StationFile.get_position
get_position(table, d, station_name) ==
    LET r == get_station_info(table, d, station_name)
    IN  IF ~r.found
        THEN [synonyms |-> r.synonyms, kind |-> "None", lat |-> <<>>, lon |-> <<>>]
        ELSE [synonyms |-> r.synonyms, kind |-> "value",
              lat |-> <<r.info.lat>>, lon |-> <<r.info.lon>>]

\* StationFile.get_station_list
get_station_list(table) ==
    Sorted([i \in 1..Len(table) |-> table[i].STATION_NAME])

(***************************************************************************)
(* StationsMatprogram, the facade.                                         *)
(***************************************************************************)
\* the loop of _load_station_filter_file from line i on: the index, the names
\* kept so far and the names reported as not found
RECURSIVE filter_lines(_, _, _, _, _)
filter_lines(table, d, lines, kept, reported) ==
    IF lines = <<>> THEN [synonyms |-> d, kept |-> kept, reported |-> reported]
    ELSE LET name == Strip(Head(lines))
         IN  IF name = <<>>
             THEN filter_lines(table, d, Tail(lines), kept, reported)
             ELSE LET r == get_station_info(table, d, name)
                  IN  IF ~r.found
                      THEN filter_lines(table, r.synonyms, Tail(lines), kept,
                                        Append(reported, name))
                      ELSE filter_lines(table, r.synonyms, Tail(lines),
                                        Append(kept, name), reported)

\* a variant that leaves the names in file order
load_station_filter_file_unsorted(table, d, lines) ==
    LET r == filter_lines(table, d, lines, <<>>, <<>>)
    IN  [synonyms |-> r.synonyms, station_name_list |-> r.kept,
         reported |-> r.reported]

\* _load_station_filter_file: the list is sorted at the end
load_station_filter_file(table, d, lines) ==
    LET r == filter_lines(table, d, lines, <<>>, <<>>)
    IN  [synonyms |-> r.synonyms, station_name_list |-> Sorted(r.kept),
         reported |-> r.reported]

\* depth of the call stack at which Python raises RecursionError
RecursionLimit == 4

\* StationsMatprogram.get_position calls itself with its own arguments
RECURSIVE Stations_get_position(_, _)
Stations_get_position(station_name, depth) ==
    IF depth >= RecursionLimit
    THEN [kind |-> "raise", exc |-> "RecursionError", lat |-> <<>>, lon |-> <<>>]
    ELSE Stations_get_position(station_name, depth + 1)

(***************************************************************************)
(* Initial states: nothing constructed yet.                                *)
(***************************************************************************)
InitObject ==
    /\ obj = "unloaded"
    /\ response = "none"
    /\ file_path = "none"
    /\ df = <<>>
    /\ station_synonyms = <<>>
    /\ station_name_list = <<>>
    /\ ret = NoRet

\* a backup file alone, holding the table; no refresh asked for
InitBackupOnly(tables, filters) ==
    /\ primary_url = FALSE
    /\ backup_file_path = TRUE
    /\ update_primary = FALSE
    /\ remote_file = NoFile
    /\ primary_file = NoFile
    /\ \E t \in tables : backup_file = TableFile(t)
    /\ station_filter_file \in filters
    /\ InitObject

DefaultFilter == <<<<"n">>, <<"z">>, <<" ", "A", "n", " ">>>>

\* tables that differ in names and synonyms
Init == InitBackupOnly(Tables(NamePool), {DefaultFilter})

\* tables that differ in positions and radii
InitGeo == InitBackupOnly(Tables(GeoPool), {DefaultFilter})

\* the rows of the facade tables, and every filter file up to MaxLines lines
FacadePool ==
    { Row(<<"n">>, NaN, 5600, 1851),
      Row(<<"A", "n">>, <<"X", "<or>">>, 5600, 1851) }

InitFacade ==
    InitBackupOnly(Tables(FacadePool), SeqsUpTo(FilterLines, MaxLines))

\* every configuration of the sources; the three files hold different tables
PrimaryTable == <<Row(<<"n">>, NaN, 5559, 1851)>>

BackupTable == <<Row(<<"n">>, <<"N">>, 5600, 1851)>>

RemoteTable == <<Row(<<"A", "n">>, <<"N">>, 5601, 0)>>

InitLoad ==
    /\ primary_url \in BOOLEAN
    /\ backup_file_path \in BOOLEAN
    /\ update_primary \in BOOLEAN
    /\ remote_file = TableFile(RemoteTable)
    /\ primary_file \in {NoFile, TableFile(PrimaryTable), ErrorPage}
    /\ backup_file \in {NoFile, TableFile(BackupTable)}
    /\ station_filter_file = DefaultFilter
    /\ InitObject

(***************************************************************************)
(* Actions: one per constructor and per public method.                     *)
(***************************************************************************)
Call(op, via, name, lat, lon) ==
    [NoRet EXCEPT !.op = op, !.via = via, !.name = name, !.lat = lat, !.lon = lon]

Outcome(exc) == IF exc = NoRaise THEN "value" ELSE "raise"

\* the objects a caller can reach: the store, and the facade once built
Vias == IF obj = "Stations" THEN {"StationFile", "Stations"} ELSE {"StationFile"}

\* a call can be made: the object is built and the caller holds no result
Ready == obj \in {"StationFile", "Stations"} /\ ret = NoRet

\* StationFile(...)
ConstructStationFile ==
    /\ obj = "unloaded"
    /\ \E status \in Statuses, body \in {remote_file, ErrorPage} :
        LET r == StationFile_init(status, body)
        IN  /\ primary_file' = r.primary
            /\ response' = r.response
            /\ file_path' = r.file_path
            /\ df' = r.df
            /\ obj' = IF r.exc = NoRaise THEN "StationFile" ELSE "failed"
            /\ ret' = [Call("__init__", "StationFile", None, <<>>, <<>>)
                         EXCEPT !.kind = Outcome(r.exc), !.exc = r.exc]
    /\ UNCHANGED <<env, station_synonyms, station_name_list>>

\* Stations(...): the store, then _load_station_filter_file
ConstructStations ==
    /\ obj = "unloaded"
    /\ \E status \in Statuses, body \in {remote_file, ErrorPage} :
        LET r == StationFile_init(status, body)
            f == load_station_filter_file(r.df, <<>>, station_filter_file)
        IN  /\ primary_file' = r.primary
            /\ response' = r.response
            /\ file_path' = r.file_path
            /\ df' = r.df
            /\ IF r.exc = NoRaise
               THEN /\ obj' = "Stations"
                    /\ station_synonyms' = f.synonyms
                    /\ station_name_list' = f.station_name_list
                    /\ ret' = [Call("__init__", "Stations", None, <<>>, <<>>)
                                 EXCEPT !.kind = "value", !.list = f.reported]
               ELSE /\ obj' = "failed"
                    /\ UNCHANGED <<station_synonyms, station_name_list>>
                    /\ ret' = [Call("__init__", "Stations", None, <<>>, <<>>)
                                 EXCEPT !.kind = "raise", !.exc = r.exc]
    /\ UNCHANGED env

Frame == UNCHANGED <<env, primary_file, obj, response, file_path, df, station_name_list>>

\* get_proper_station_name, on the store or forwarded by the facade
GetProperStationName ==
    /\ Ready
    /\ \E via \in Vias, s \in QueryNames :
        LET r == get_proper_station_name(df, station_synonyms, s)
        IN  /\ station_synonyms' = r.synonyms
            /\ ret' = [Call("get_proper_station_name", via, s, <<>>, <<>>)
                         EXCEPT !.kind = IF r.name = None THEN "None" ELSE "value",
                                !.str = r.name]
    /\ Frame

\* get_station_info, on the store or forwarded by the facade
GetStationInfo ==
    /\ Ready
    /\ \E via \in Vias, s \in QueryNames :
        LET r == get_station_info(df, station_synonyms, s)
        IN  /\ station_synonyms' = r.synonyms
            /\ ret' = [Call("get_station_info", via, s, <<>>, <<>>)
                         EXCEPT !.kind = IF r.found THEN "value" ELSE "None",
                                !.info = r.info]
    /\ Frame

\* get_distance_to_station, on the store or forwarded by the facade
GetDistanceToStation ==
    /\ Ready
    /\ \E via \in Vias, s \in QueryNames, lat \in QueryLats, lon \in QueryLons :
        LET r == get_distance_to_station(df, station_synonyms, lat, lon, s)
        IN  /\ station_synonyms' = r.synonyms
            /\ ret' = [Call("get_distance_to_station", via, s, lat, lon)
                         EXCEPT !.kind = r.kind, !.num = r.num, !.exc = r.exc,
                                !.dist_calls = r.dist_calls]
    /\ Frame

\* get_closest_station, on the store or forwarded by the facade
GetClosestStation ==
    /\ Ready
    /\ \E via \in Vias, lat \in QueryLats, lon \in QueryLons :
        LET r == get_closest_station(df, lat, lon)
        IN  ret' = [Call("get_closest_station", via, None, lat, lon)
                      EXCEPT !.kind = r.kind, !.info = r.info, !.exc = r.exc,
                             !.dist_calls = r.dist_calls]
    /\ UNCHANGED station_synonyms
    /\ Frame

\* StationFile.get_position
GetPosition ==
    /\ Ready
    /\ \E s \in QueryNames :
        LET r == get_position(df, station_synonyms, s)
        IN  /\ station_synonyms' = r.synonyms
            /\ ret' = [Call("get_position", "StationFile", s, r.lat, r.lon)
                         EXCEPT !.kind = r.kind]
    /\ Frame

\* StationFile.get_station_list
GetStationList ==
    /\ Ready
    /\ ret' = [Call("get_station_list", "StationFile", None, <<>>, <<>>)
                 EXCEPT !.kind = "value", !.list = get_station_list(df)]
    /\ UNCHANGED station_synonyms
    /\ Frame

\* StationsMatprogram.get_station_list: the filtered list
StationsGetStationList ==
    /\ obj = "Stations" /\ ret = NoRet
    /\ ret' = [Call("get_station_list", "Stations", None, <<>>, <<>>)
                 EXCEPT !.kind = "value", !.list = station_name_list]
    /\ UNCHANGED station_synonyms
    /\ Frame

\* StationsMatprogram.get_position
StationsGetPosition ==
    /\ obj = "Stations" /\ ret = NoRet
    /\ \E s \in QueryNames :
        LET r == Stations_get_position(s, 0)
        IN  ret' = [Call("get_position", "Stations", s, r.lat, r.lon)
                      EXCEPT !.kind = r.kind, !.exc = r.exc]
    /\ UNCHANGED station_synonyms
    /\ Frame

\* the caller takes the outcome of the last call and is free to call again
TakeResult ==
    /\ ret # NoRet
    /\ ret' = NoRet
    /\ UNCHANGED <<env, primary_file, obj, response, file_path, df,
                   station_synonyms, station_name_list>>

Next ==
    \/ ConstructStationFile
    \/ ConstructStations
    \/ GetProperStationName
    \/ GetStationInfo
    \/ GetDistanceToStation
    \/ GetClosestStation
    \/ GetPosition
    \/ GetStationList
    \/ StationsGetStationList
    \/ StationsGetPosition
    \/ TakeResult

Spec == Init /\ [][Next]_vars

SpecGeo == InitGeo /\ [][Next]_vars

SpecFacade == InitFacade /\ [][Next]_vars

SpecLoad == InitLoad /\ [][Next]_vars

(***************************************************************************)
(* Properties.                                                             *)
(***************************************************************************)
\* the fields of a table row, as a view carries them
SameRow(info, row) ==
    /\ info.STATION_NAME = row.STATION_NAME
    /\ info.SYNONYM_NAMES = row.SYNONYM_NAMES
    /\ info.LAT_DM = row.LAT_DM
    /\ info.LONG_DM = row.LONG_DM
    /\ info.OUT_OF_BOUNDS_RADIUS = row.OUT_OF_BOUNDS_RADIUS

\* distance from the position asked for to row i of the table
DistTo(i) ==
    distance_to_station(<<ret.lat[1], ret.lon[1]>>, <<df[i].LAT_DM, df[i].LONG_DM>>)

ClosestCalled ==
    /\ ret.op = "get_closest_station"
    /\ ret.lat # <<>>
    /\ ret.lon # <<>>
    /\ df # <<>>

\* C1: get_closest_station with both coordinates on a non-empty table returns
\* the row at the minimum distance over all rows, the first such row in table
\* order when several tie; 'distance' is that minimum and 'acceptable' is true
\* exactly when the distance is at most that row's OUT_OF_BOUNDS_RADIUS.
C1_ClosestIsFirstMinimum ==
    ClosestCalled =>
        /\ ret.kind = "value"
        /\ \E i \in 1..Len(df) :
            /\ \A j \in 1..Len(df) : DistTo(i) <= DistTo(j)
            /\ \A j \in 1..(i - 1) : DistTo(j) > DistTo(i)
            /\ SameRow(ret.info, df[i])
            /\ ret.info.station = df[i].STATION_NAME
            /\ ret.info.distance = DistTo(i)
            /\ ret.info.acceptable = (DistTo(i) <= df[i].OUT_OF_BOUNDS_RADIUS)

\* two rows with different radii tie at the minimum, the first is not
\* acceptable and the second would have been
C1_Witness ==
    /\ ClosestCalled
    /\ Len(df) = 2
    /\ DistTo(1) = DistTo(2)
    /\ DistTo(1) > 0
    /\ df[1].OUT_OF_BOUNDS_RADIUS < DistTo(1)
    /\ df[2].OUT_OF_BOUNDS_RADIUS >= DistTo(2)
    /\ df[1].LAT_DM # df[2].LAT_DM
    /\ ~ret.info.acceptable

\* C9: get_closest_station returns None, computing no distance and raising
\* nothing, whenever the latitude or the longitude is None, whatever the table.
C9_AbsentCoordinateGivesNone ==
    (ret.op = "get_closest_station" /\ (ret.lat = <<>> \/ ret.lon = <<>>)) =>
        /\ ret.kind = "None"
        /\ ret.exc = NoRaise
        /\ ret.dist_calls = 0
        /\ ret.info = NoInfo

\* the longitude alone is absent, on a table with rows
C9_Witness ==
    /\ ret.op = "get_closest_station"
    /\ ret.lat # <<>>
    /\ ret.lon = <<>>
    /\ Len(df) = 2
    /\ ret.kind = "None"

\* the sources as _load_file finds them
PrimaryThere == primary_url /\ primary_file.exists

BackupThere == backup_file_path /\ backup_file.exists

\* the constructor ran and reached _load_file
LoadReached == obj # "unloaded" /\ response # "ConnectionError"

\* C2: loading reads the primary cache file whenever it exists, the backup file
\* only when the primary cache is absent or not configured and the backup
\* exists, and fails with FileNotFoundError, with no store, when neither exists.
C2_LoadPrefersPrimary ==
    LoadReached =>
        /\ PrimaryThere => file_path = "primary"
        /\ (file_path = "backup") = (~PrimaryThere /\ BackupThere)
        /\ (~PrimaryThere /\ ~BackupThere) =>
              /\ obj = "failed"
              /\ file_path = "none"
              /\ ret.op = "__init__" => ret.exc = "FileNotFoundError"
        /\ (obj # "failed" /\ file_path = "primary") =>
              df = read_table(primary_file.rows)
        /\ (obj # "failed" /\ file_path = "backup") =>
              df = read_table(backup_file.rows)

\* both files exist and the primary one was read
C2_Witness ==
    /\ obj = "StationFile"
    /\ ~update_primary
    /\ PrimaryThere
    /\ BackupThere
    /\ file_path = "primary"
    /\ df = read_table(PrimaryTable)

\* the constructor fetched, and the fetch failed
FetchFailed ==
    /\ obj # "unloaded"
    /\ update_primary
    /\ primary_url
    /\ response \in {"404", "ConnectionError"}

\* C3: when a refresh of the primary source is asked for and the fetch fails
\* (network error or a status other than 200), construction fails and the
\* failed response is never read as the station table.
C3_FailedFetchFailsConstruction ==
    FetchFailed =>
        /\ obj = "failed"
        /\ file_path # "primary" \/ response = "ConnectionError"

\* the keys a row's synonym field gives: the uppercased pieces of the stripped
\* field, none when the stripped field is empty
SynKeys(row) ==
    LET synonym_string == Strip(astype_str(row.SYNONYM_NAMES))
        pieces == SplitOr(synonym_string)
    IN  IF synonym_string = <<>> THEN {}
        ELSE {Upper(pieces[i]) : i \in 1..Len(pieces)}

\* the keys a row registers: its uppercased name and its synonym keys
RowKeys(row) == {Upper(row.STATION_NAME)} \cup SynKeys(row)

IndexBuilt == station_synonyms # <<>>

\* the rows whose synonym field is set and lists key k
Listers(k) ==
    {i \in 1..Len(df) : df[i].SYNONYM_NAMES # NaN /\ k \in SynKeys(df[i])}

\* C4 as stated: a synonym listed for two different stations maps to the
\* station that comes first in table order.
C4_FirstStationWins ==
    IndexBuilt =>
        \A k \in DictKeys(station_synonyms) :
            (/\ \E i, j \in Listers(k) : df[i].STATION_NAME # df[j].STATION_NAME
             /\ \A i \in 1..Len(df) : k # Upper(df[i].STATION_NAME)) =>
                \E i \in Listers(k) :
                    /\ \A j \in Listers(k) : i <= j
                    /\ DictGet(station_synonyms, k) = df[i].STATION_NAME

\* C4: in the synonym index every key has one entry and so one canonical name,
\* and a key registered by several rows (as uppercased name or as synonym)
\* maps to the name of the row that comes last in table order.
C4_LastStationWins ==
    IndexBuilt =>
        /\ \A i, j \in 1..Len(station_synonyms) :
              i # j => station_synonyms[i][1] # station_synonyms[j][1]
        /\ \A k \in DictKeys(station_synonyms) :
              \E i \in 1..Len(df) :
                  /\ k \in RowKeys(df[i])
                  /\ \A j \in (i + 1)..Len(df) : k \notin RowKeys(df[j])
                  /\ DictGet(station_synonyms, k) = df[i].STATION_NAME

\* two stations list the same synonym and the index holds the later one
C4_Witness ==
    /\ IndexBuilt
    /\ Len(df) = 2
    /\ df[1].STATION_NAME # df[2].STATION_NAME
    /\ \E k \in DictKeys(station_synonyms) :
          /\ Listers(k) = {1, 2}
          /\ k \notin {Upper(df[1].STATION_NAME), Upper(df[2].STATION_NAME)}
          /\ DictGet(station_synonyms, k) = df[2].STATION_NAME

\* C5: once the index is built, the uppercased canonical name of every row
\* maps to that row's canonical name, whatever synonyms other rows list.
C5_CanonicalNameMapsToItself ==
    IndexBuilt =>
        \A i \in 1..Len(df) :
            DictGet(station_synonyms, Upper(df[i].STATION_NAME)) = df[i].STATION_NAME

\* C6: get_station_list returns the canonical names in ascending order with no
\* name twice, also when several rows carry the same canonical name.
C6_StationListStrictlyAscending ==
    ret.op = "get_station_list" =>
        \A i, j \in 1..Len(ret.list) : i < j => StrLess(ret.list[i], ret.list[j])

\* the name the index holds for s, trimmed and uppercased
Registered(s) == DictGet(station_synonyms, Upper(Strip(s)))

\* C7: get_proper_station_name(s) is the canonical name registered for s
\* trimmed and uppercased, None when nothing is registered; get_station_info(s)
\* is None exactly when that name is None, else the view of the row of that
\* canonical name, with 'station' that name.
C7_NameAndInfoResolveThroughIndex ==
    /\ ret.op = "get_proper_station_name" =>
          /\ ret.str = Registered(ret.name)
          /\ (ret.kind = "None") = (Registered(ret.name) = None)
    /\ ret.op = "get_station_info" =>
          /\ (ret.kind = "None") = (Registered(ret.name) = None)
          /\ ret.kind # "None" =>
                /\ ret.kind = "value"
                /\ ret.info.station = Registered(ret.name)
                /\ \E i \in 1..Len(df) :
                      /\ df[i].STATION_NAME = Registered(ret.name)
                      /\ SameRow(ret.info, df[i])
                      /\ ret.info.lat = df[i].LAT_DM
                      /\ ret.info.lon = df[i].LONG_DM

\* a name that needs trimming and uppercasing resolved to a view
C7_Witness ==
    /\ ret.op = "get_station_info"
    /\ ret.kind = "value"
    /\ ret.name = <<" ", "A", "n", " ">>
    /\ ret.info.station = <<"A", "n">>

NameQueries ==
    {"get_proper_station_name", "get_station_info", "get_distance_to_station",
     "get_position"}

\* C8: a query by name never raises: called with an unresolvable name (and, for
\* the distance, with both coordinates) it returns None, called with a
\* resolvable name it returns a value, on the store and on the facade alike.
C8_NameQueriesNeverRaise ==
    (/\ ret.op \in NameQueries
     /\ ret.op = "get_distance_to_station" => (ret.lat # <<>> /\ ret.lon # <<>>)) =>
        /\ ret.kind # "raise"
        /\ Registered(ret.name) = None => ret.kind = "None"
        /\ Registered(ret.name) # None => ret.kind = "value"

\* a name resolves when some row registers it, trimmed and uppercased
Resolves(n) == \E i \in 1..Len(df) : Upper(Strip(n)) \in RowKeys(df[i])

\* how often x occurs in the list l
Count(l, x) == Cardinality({i \in 1..Len(l) : l[i] = x})

\* the lines of the filter file, trimmed
FilterNames == [i \in 1..Len(station_filter_file) |-> Strip(station_filter_file[i])]

\* the names of the list l that are not blank and do not resolve, in order
RECURSIVE Unresolved(_)
Unresolved(l) ==
    IF l = <<>> THEN <<>>
    ELSE IF Head(l) # <<>> /\ ~Resolves(Head(l))
    THEN <<Head(l)>> \o Unresolved(Tail(l))
    ELSE Unresolved(Tail(l))

\* C10: filtering by the filter file keeps exactly its non-blank names that
\* resolve, reports and drops without raising every name that does not
\* resolve, and the resulting list is sorted ascending.
C10_FilterKeepsResolvableSorted ==
    obj = "Stations" =>
        /\ \A i, j \in 1..Len(station_name_list) :
              i < j => ~StrLess(station_name_list[j], station_name_list[i])
        /\ \A n \in {FilterNames[i] : i \in 1..Len(FilterNames)}
                    \cup {station_name_list[i] : i \in 1..Len(station_name_list)} :
              Count(station_name_list, n) =
                  IF n # <<>> /\ Resolves(n) THEN Count(FilterNames, n) ELSE 0
        /\ ret.op = "__init__" =>
              /\ ret.kind = "value"
              /\ ret.list = Unresolved(FilterNames)

\* two names kept out of file order, a blank line skipped and a name dropped
C10_Witness ==
    /\ obj = "Stations"
    /\ ret.op = "__init__"
    /\ station_filter_file = <<<<"n">>, <<" ", "A", "n", " ">>, <<"z">>>>
    /\ station_name_list = <<<<"A", "n">>, <<"n">>>>
    /\ ret.list = <<<<"z">>>>

\* the keys C11 gives a row: its uppercased name and, when its synonym field
\* is set, the uppercased trimmed pieces of the field that are not empty
ClaimedKeys(row) ==
    {Upper(row.STATION_NAME)} \cup
    ( IF row.SYNONYM_NAMES = NaN THEN {}
      ELSE LET pieces == SplitOr(row.SYNONYM_NAMES)
           IN  {Upper(Strip(pieces[i])) : i \in 1..Len(pieces)} \ {<<>>} )

\* C11: the keys of the built index are exactly the uppercased canonical names
\* and the uppercased, trimmed, non-empty pieces of each row's synonym field
\* split on '<or>'; a row whose synonym field is unset or empty gives no key
\* but its own name.
C11_IndexKeysAreNamesAndTrimmedPieces ==
    IndexBuilt =>
        DictKeys(station_synonyms) = UNION {ClaimedKeys(df[i]) : i \in 1..Len(df)}

\* the step is a call that reaches get_proper_station_name: a query by name on
\* the store or forwarded to it (the facade's get_position never gets there)
Resolution ==
    /\ ret = NoRet
    /\ ret'.op \in NameQueries
    /\ ~(ret'.op = "get_position" /\ ret'.via = "Stations")

\* the step is a query of any kind
Query ==
    /\ ret = NoRet
    /\ ret'.op \in NameQueries \cup {"get_closest_station", "get_station_list"}

\* the keys and names of the whole index of the table
FullIndex(d, table) ==
    /\ DictKeys(d) = UNION {RowKeys(table[i]) : i \in 1..Len(table)}
    /\ \A k \in DictKeys(d) :
          \E i \in 1..Len(table) : DictGet(d, k) = table[i].STATION_NAME

\* C12: the synonym index is empty until the first resolution request and is
\* built by that request; from then on every query (closest station, station
\* info, proper name, distance, station list, position) leaves the loaded
\* table and the index as they are.
C12_LazyIndexAndQueriesChangeNothing ==
    [][ /\ station_synonyms' # station_synonyms =>
              /\ station_synonyms = <<>>
              /\ Resolution \/ (obj = "unloaded" /\ obj' = "Stations")
        /\ Resolution => FullIndex(station_synonyms', df)
        /\ (obj = "unloaded" /\ station_synonyms' # <<>>) =>
              FullIndex(station_synonyms', df')
        /\ Query =>
              /\ df' = df
              /\ station_name_list' = station_name_list
              /\ IndexBuilt => station_synonyms' = station_synonyms
       ]_vars

\* a store whose index a query by name built, asked later for the closest
\* station
C12_Witness ==
    /\ obj = "StationFile"
    /\ IndexBuilt
    /\ Len(df) = 2
    /\ ret.op = "get_closest_station"
    /\ ret.kind = "value"

====
